---- MODULE Spec2Model ----
(***************************************************************************)
(* Batch conversion pipeline of markitdown-web (conveter/app.py):          *)
(* ZIP extraction into a flat scratch directory, the batch registry with   *)
(* its request handlers, the background conversion worker, the conversion  *)
(* dispatch and the history log; the storage migration of                  *)
(* conveter/file_migrator.py; and the class ArchiveExtractor of            *)
(* conveter/converters/archive_extractor.py.                               *)
(*                                                                         *)
(* File names are modelled structurally: a name is a record                *)
(*   [dir, base, sfx, ext]                                                 *)
(* standing for the string  dir/.../base_s1_s2....ext, so that             *)
(* os.path.basename, os.path.splitext and the "_<counter>" renaming are    *)
(* computed as the code computes them.                                     *)
(*                                                                         *)
(* Python's optional values are sequences of length 0 (None) or 1.         *)
(***************************************************************************)
EXTENDS Integers, Sequences, FiniteSets, TLC

\* ------------------------------------------------------------------------
\* Bounds
\* ------------------------------------------------------------------------

\* longest archive (number of ZIP entries) explored by SpecExtract
MaxEntries == 3

\* ------------------------------------------------------------------------
\* Names and paths
\* ------------------------------------------------------------------------

None == <<>>

Some(x) == <<x>>

\* Python truthiness of an optional string: None and '' are both falsy
Truthy(opt) == opt # None /\ opt # Some("")

MkName(dir, base, sfx, ext) == [dir |-> dir, base |-> base, sfx |-> sfx, ext |-> ext]

\* variant: the entry's name is used as it is, directories included
Basename_KeepsDirs(n) == n

\* os.path.basename: discards every directory component
Basename(n) == [n EXCEPT !.dir = <<>>]

\* the names "." and "..", which name a directory in every directory
IsDirRef(n) == n.dir = <<>> /\ n.base \in {".", ".."} /\ n.sfx = <<>> /\ n.ext = ""

\* os.path.exists(os.path.join(temp_dir, n)) when the files created so far
\* in temp_dir are dirContents
Exists(n, dirContents) == n \in dirContents \/ IsDirRef(n)

\* f"{base_name}_{counter}{ext}" with (base_name, ext) = os.path.splitext(n)
WithCounter(n, counter) == [n EXCEPT !.sfx = Append(n.sfx, counter)]

\* the "while os.path.exists(extract_path)" loop of extract_archive_safe:
\* n0 is the entry's base file name, cur the candidate, counter the next
\* number to try
\* variant: the counter is appended to the previous candidate instead of the
\* original base name (a, a_1, a_1_2, ...)
RECURSIVE DedupLoop_Accumulating(_, _, _, _)
DedupLoop_Accumulating(n0, cur, counter, dirContents) ==
    IF Exists(cur, dirContents)
      THEN DedupLoop_Accumulating(n0, WithCounter(cur, counter), counter + 1, dirContents)
      ELSE cur

RECURSIVE DedupLoop(_, _, _, _)
DedupLoop(n0, cur, counter, dirContents) ==
    IF Exists(cur, dirContents)
      THEN DedupLoop(n0, WithCounter(n0, counter), counter + 1, dirContents)
      ELSE cur

FreeName(n0, dirContents) == DedupLoop(n0, n0, 1, dirContents)

\* format_map.get(ext, 'unknown') of extract_archive_safe
FormatMap(ext) ==
    CASE ext = "pdf"  -> "pdf"
      [] ext = "doc"  -> "word"
      [] ext = "docx" -> "word"
      [] ext = "xls"  -> "excel"
      [] ext = "xlsx" -> "excel"
      [] ext = "ppt"  -> "ppt"
      [] ext = "pptx" -> "ppt"
      [] ext = "jpg"  -> "image"
      [] ext = "jpeg" -> "image"
      [] ext = "png"  -> "image"
      [] ext = "gif"  -> "image"
      [] ext = "html" -> "html"
      [] ext = "htm"  -> "html"
      [] ext = "txt"  -> "text"
      [] ext = "csv"  -> "csv"
      [] ext = "json" -> "json"
      [] ext = "xml"  -> "xml"
      [] OTHER        -> "unknown"

\* ------------------------------------------------------------------------
\* ZIP archives
\* ------------------------------------------------------------------------

\* What reading one entry does (zip_ref.open + open(target) + copyfileobj):
\*   ok         the entry is copied
\*   fail_open  zip_ref.open raises before the target file is created
\*              (encrypted entry without / with a wrong password)
\*   fail_copy  copyfileobj raises with a message (bad CRC); the target
\*              file has been created
\*   fail_eof   copyfileobj raises EOFError, whose str() is '' (entry data
\*              truncated); the target file has been created
Outcomes == {"ok", "fail_open", "fail_copy", "fail_eof"}

ErrorText(outcome) ==
    CASE outcome = "fail_open" -> "password required"
      [] outcome = "fail_copy" -> "Bad CRC-32"
      [] OTHER                 -> ""

EntryNames ==
    { MkName(<<>>, "a", <<>>, "pdf"),
      MkName(<<"x">>, "a", <<>>, "pdf"),
      MkName(<<>>, "a", <<1>>, "pdf"),
      MkName(<<>>, "b", <<>>, "txt"),
      MkName(<<>>, "c", <<>>, "csv") }

\* a directory entry ("x/"): is_dir() is true
DirEntry == [name |-> MkName(<<"x">>, "", <<>>, ""), isdir |-> TRUE, outcome |-> "ok"]

FileEntries == [name : EntryNames, isdir : {FALSE}, outcome : Outcomes]

Entries == FileEntries \cup {DirEntry}

SeqsUpTo(S, n) == UNION { [1..k -> S] : k \in 0..n }

\* ------------------------------------------------------------------------
\* extract_archive_safe
\* ------------------------------------------------------------------------

\* the member recorded for an entry that was extracted
OkMember(e, target) ==
    [ filename          |-> target,
      original_path     |-> e.name,
      extracted_path    |-> Some(target),
      format            |-> FormatMap(target.ext),
      error             |-> None,
      conversion_status |-> "None",
      conversion_error  |-> None ]

\* the member recorded by the except branch
FailedMember(e) ==
    [ filename          |-> e.name,
      original_path     |-> e.name,
      extracted_path    |-> None,
      format            |-> "unknown",
      error             |-> Some(ErrorText(e.outcome)),
      conversion_status |-> "None",
      conversion_error  |-> None ]

\* variant: an entry that fails is not recorded
ExtractEntry_DropsFailed(st, e) ==
    IF e.isdir THEN st
    ELSE LET target == FreeName(Basename(e.name), st.dir)
         IN  IF e.outcome = "ok"
               THEN [dir |-> st.dir \cup {target}, files |-> Append(st.files, OkMember(e, target))]
               ELSE st

\* one iteration of "for file_info in file_list"; st is the scratch
\* directory's contents and the member list built so far
ExtractEntry(st, e) ==
    IF e.isdir THEN st
    ELSE LET target == FreeName(Basename(e.name), st.dir)
         IN  CASE e.outcome = "ok" ->
                    [dir |-> st.dir \cup {target}, files |-> Append(st.files, OkMember(e, target))]
               [] e.outcome = "fail_open" ->
                    [dir |-> st.dir, files |-> Append(st.files, FailedMember(e))]
               [] OTHER ->
                    [dir |-> st.dir \cup {target}, files |-> Append(st.files, FailedMember(e))]

CountSeq(s, P(_)) == Cardinality({i \in DOMAIN s : P(s[i])})

HasError(f) == Truthy(f.error)

NoError(f) == ~Truthy(f.error)

NotDir(e) == ~e.isdir

\* the dict returned after the loop
ExtractResult(entries, st) ==
    [ success         |-> TRUE,
      total_files     |-> CountSeq(entries, NotDir),
      extracted_files |-> CountSeq(st.files, NoError),
      failed_files    |-> CountSeq(st.files, HasError),
      files           |-> st.files ]

\* the dict returned by the outer except branch
ExtractFailure ==
    [ success |-> FALSE,
      error   |-> "File is not a zip file",
      files   |-> <<>> ]

EmptyScratch == [dir |-> {}, files |-> <<>>]

RECURSIVE ExtractLoop(_, _, _)
ExtractLoop(entries, i, st) ==
    IF i > Len(entries) THEN st
    ELSE ExtractLoop(entries, i + 1, ExtractEntry(st, entries[i]))

\* variant: an archive that cannot be opened is reported as an empty one
extract_archive_safe_SwallowsOpenError(archive) ==
    ExtractResult(archive.entries, ExtractLoop(archive.entries, 1, EmptyScratch))

\* the whole function, for an archive [openable, entries]
extract_archive_safe(archive) ==
    IF archive.openable
      THEN ExtractResult(archive.entries, ExtractLoop(archive.entries, 1, EmptyScratch))
      ELSE ExtractFailure


\* ------------------------------------------------------------------------
\* Conversion dispatch
\* ------------------------------------------------------------------------

\* the keys of SUPPORTED_FORMATS
SUPPORTED_FORMATS ==
    {"pdf", "word", "excel", "ppt", "image", "audio", "video",
     "html", "csv", "json", "xml", "zip", "rar"}

\* the extensions SUPPORTED_FORMATS lists under a format
SupportedExtensions(fmt) ==
    CASE fmt = "pdf"   -> {"pdf"}
      [] fmt = "word"  -> {"doc", "docx"}
      [] fmt = "excel" -> {"xls", "xlsx"}
      [] fmt = "ppt"   -> {"ppt", "pptx"}
      [] fmt = "image" -> {"jpg", "jpeg", "png", "gif", "bmp"}
      [] fmt = "audio" -> {"mp3", "wav", "flac", "aac", "ogg", "m4a", "wma"}
      [] fmt = "video" -> {"mp4", "avi", "mov", "mkv", "wmv", "flv", "webm", "m4v",
                           "3gp", "mpg", "mpeg"}
      [] fmt = "html"  -> {"html", "htm"}
      [] fmt = "csv"   -> {"csv"}
      [] fmt = "json"  -> {"json"}
      [] fmt = "xml"   -> {"xml"}
      [] fmt = "zip"   -> {"zip"}
      [] fmt = "rar"   -> {"rar"}
      [] OTHER         -> {}

\* What one call of a converter does: it returns a markdown string, or it
\* raises an exception whose str() is msg
Returns == [raises |-> FALSE, msg |-> ""]

Raises(msg) == [raises |-> TRUE, msg |-> msg]

\* what convert_file_content does: it returns a string (kind "markdown",
\* "error_report" or "placeholder", detail being the exception messages the
\* string embeds), or an exception leaves it (kind "raise")
Result(kind, detail) == [kind |-> kind, detail |-> detail]

\* variant: the handlers of ppt, audio and video re-raise the exception
convert_file_content_Reraises(file_format, conv) ==
    CASE file_format = "pdf" ->
             IF ~conv.primary.raises THEN Result("markdown", <<>>)
             ELSE IF ~conv.fallback.raises THEN Result("markdown", <<>>)
             ELSE Result("error_report", <<conv.primary.msg, conv.fallback.msg>>)
      [] file_format \in {"ppt", "audio", "video", "csv", "image", "json", "xml", "html", "word"} ->
             IF ~conv.primary.raises THEN Result("markdown", <<>>)
             ELSE Result("raise", <<conv.primary.msg>>)
      [] OTHER -> Result("placeholder", <<>>)

\* convert_file_content(file_path, file_format) when the format's converter
\* behaves as conv.primary and, for pdf, the native converter tried after
\* it as conv.fallback
convert_file_content(file_format, conv) ==
    CASE file_format = "pdf" ->
             IF ~conv.primary.raises THEN Result("markdown", <<>>)
             ELSE IF ~conv.fallback.raises THEN Result("markdown", <<>>)
             ELSE Result("error_report", <<conv.primary.msg, conv.fallback.msg>>)
      [] file_format \in {"ppt", "audio", "video"} ->
             IF ~conv.primary.raises THEN Result("markdown", <<>>)
             ELSE Result("error_report", <<conv.primary.msg>>)
      [] file_format \in {"csv", "image", "json", "xml", "html", "word"} ->
             IF ~conv.primary.raises THEN Result("markdown", <<>>)
             ELSE Result("raise", <<conv.primary.msg>>)
      [] OTHER -> Result("placeholder", <<>>)

\* variant: the native pdf converter is called whatever the first one did
ConvertersCalled_AlwaysBoth(file_format, conv) ==
    CASE file_format = "pdf" -> <<"primary", "fallback">>
      [] file_format \in {"ppt", "audio", "video", "csv", "image", "json", "xml", "html", "word"} ->
             <<"primary">>
      [] OTHER -> <<>>

\* the converters convert_file_content calls, in the order of the calls:
\* "primary" is the format's converter (for pdf, pdf_converter.pdf_converter),
\* "fallback" is pdf_native_converter, called in the except branch of pdf
ConvertersCalled(file_format, conv) ==
    CASE file_format = "pdf" ->
             IF conv.primary.raises THEN <<"primary", "fallback">> ELSE <<"primary">>
      [] file_format \in {"ppt", "audio", "video", "csv", "image", "json", "xml", "html", "word"} ->
             <<"primary">>
      [] OTHER -> <<>>

AllOk == [primary |-> Returns, fallback |-> Returns]

AllRaise == [primary |-> Raises("boom"), fallback |-> Raises("boom")]

\* the converter behaviours the batch worker is run against
ConverterBehaviours == {AllOk, AllRaise}

\* ------------------------------------------------------------------------
\* The history log (history.json)
\* ------------------------------------------------------------------------

\* "if len(history) > 100: history = history[:100]"
HistoryCap == 100

\* history[:n]
Take(h, n) == SubSeq(h, 1, IF Len(h) < n THEN Len(h) ELSE n)

\* the record built by add_to_history; id stands for uuid.uuid4().hex
NewRecord(id, original_name, file_format) ==
    [id |-> id, original_name |-> original_name, format |-> file_format]

\* variant: the new record is appended at the end
InsertRecord_AtEnd(h, record) ==
    LET h2 == Append(h, record)
    IN  IF Len(h2) > HistoryCap THEN Take(h2, HistoryCap) ELSE h2

\* add_to_history, lines 172-176: insert at the front, keep the first 100
InsertRecord(h, record) ==
    LET h2 == <<record>> \o h
    IN  IF Len(h2) > HistoryCap THEN Take(h2, HistoryCap) ELSE h2

\* variant: the record and everything older than it is removed
WithoutId_DropsOlder(h, id) ==
    IF \E i \in DOMAIN h : h[i].id = id
      THEN SubSeq(h, 1, (CHOOSE i \in DOMAIN h : h[i].id = id) - 1)
      ELSE h

\* delete_history_item, line 549
WithoutId(h, id) == SelectSeq(h, LAMBDA item : item.id # id)

\* ------------------------------------------------------------------------
\* State
\* ------------------------------------------------------------------------

BatchIds == {"b1"}

VARIABLES
    batch_conversion_status,  \* the registry: batch_id -> BatchJob dict
    epc,        \* extract_batch request threads: position
    cpc,        \* convert_batch request threads: position
    cbody,      \* convert_batch request threads: the request's JSON body
    wpc,        \* conversion worker threads: position in convert_batch_files
    wi,         \* worker: index i of the entry being processed
    wfiles,     \* worker: the list "files" (selected_files) it iterates
    wg,         \* worker: global_file, as [gen, idx] into batch['files']
    response,   \* last body returned by GET /status/batch/<id>
    zip,        \* the archive handed to extract_archive_safe
    xpc,        \* position inside extract_archive_safe
    xi,         \* index of the next entry of file_list
    scratch,    \* temp_dir contents and extracted_files so far
    xresult,    \* the returned dict, once returned
    history,    \* the contents of history.json, most recent record first
    nextid,     \* number of the next fresh uuid
    hpc,        \* history request threads: position
    hop,        \* history request threads: the operation requested
    hlocal,     \* history request threads: the list returned by load_history
    hresp,      \* history request threads: status code of the response
    dfmt,       \* convert_file_content: the argument file_format
    dconv,      \* convert_file_content: what the converters called do
    dresult,    \* convert_file_content: its outcome, once it has ended
    dcalls,     \* convert_file_content: the converters it has called, in order
    mfs,        \* the files on disk: a set of paths
    mreq,       \* migrate_storage_directories: its arguments and the layout before
    mresult,    \* migrate_storage_directories: the result's success, once returned
    atemp,      \* ArchiveExtractor.temp_dir: None, or the files in that directory
    alast,      \* ArchiveExtractor: the last archive extracted and the dict returned
    acount      \* ArchiveExtractor: number of extract_archive calls made

xvars == <<zip, xpc, xi, scratch, xresult>>

reqvars == <<epc, cpc, cbody>>

wvars == <<wpc, wi, wfiles, wg>>

bvars == <<batch_conversion_status, epc, cpc, cbody, wpc, wi, wfiles, wg, response>>

hvars == <<history, nextid, hpc, hop, hlocal, hresp>>

dvars == <<dfmt, dconv, dresult, dcalls>>

mvars == <<mfs, mreq, mresult>>

avars == <<atemp, alast, acount>>

vars == <<batch_conversion_status, epc, cpc, cbody, wpc, wi, wfiles, wg, response,
          zip, xpc, xi, scratch, xresult,
          history, nextid, hpc, hop, hlocal, hresp, dfmt, dconv, dresult, dcalls,
          mfs, mreq, mresult, atemp, alast, acount>>

\* threads serving requests on the history log
HistoryReqs == DOMAIN hpc

\* HTTP request threads (each serves one request); a convert request's
\* name also names the background thread it starts
ExtractReqs == DOMAIN epc

ConvertReqs == DOMAIN cpc

\* values of the variables of the part of the program a specification
\* does not run
IdleExtractor ==
    /\ zip = [openable |-> FALSE, entries |-> <<>>]
    /\ xpc = "unused"
    /\ xi = 1
    /\ scratch = EmptyScratch
    /\ xresult = None

\* an empty history log, and the request threads hreqs that will work on it
IdleHistory(hreqs) ==
    /\ history = <<>>
    /\ nextid = 1
    /\ hpc = [t \in hreqs |-> "idle"]
    /\ hop = [t \in hreqs |-> [op |-> "none", id |-> 0]]
    /\ hlocal = [t \in hreqs |-> <<>>]
    /\ hresp = [t \in hreqs |-> 0]

IdleDispatch ==
    /\ dfmt = "unknown"
    /\ dconv = AllOk
    /\ dresult = None
    /\ dcalls = <<>>

IdleMigrate ==
    /\ mfs = {}
    /\ mreq = [changes |-> {}, failAt |-> 0, before |-> {}]
    /\ mresult = None

\* the module-global ArchiveExtractor instance after __init__
IdleArchiveExtractor ==
    /\ atemp = None
    /\ alast = None
    /\ acount = 0

\* nothing uploaded yet; ereqs and creqs are the request threads that will
\* serve extract and convert requests
IdleBatch(ereqs, creqs) ==
    /\ batch_conversion_status = <<>>
    /\ epc = [r \in ereqs |-> "idle"]
    /\ cpc = [r \in creqs |-> "idle"]
    /\ cbody = [r \in creqs |-> "unset"]
    /\ wpc = [w \in creqs |-> "off"]
    /\ wi = [w \in creqs |-> 1]
    /\ wfiles = [w \in creqs |-> <<>>]
    /\ wg = [w \in creqs |-> None]
    /\ response = None

\* ------------------------------------------------------------------------
\* SpecExtract: extract_archive_safe applied to every small archive
\* ------------------------------------------------------------------------

Archives(n) == [openable : BOOLEAN, entries : SeqsUpTo(Entries, n)]

InitExtract ==
    /\ zip \in Archives(MaxEntries)
    /\ xpc = "open"
    /\ xi = 1
    /\ scratch = EmptyScratch
    /\ xresult = None
    /\ IdleBatch({"e1"}, {"c1"})
    /\ IdleHistory({})
    /\ IdleDispatch
    /\ IdleMigrate /\ IdleArchiveExtractor

\* zipfile.ZipFile(archive_path) succeeds
XOpen ==
    /\ xpc = "open"
    /\ zip.openable
    /\ xpc' = "loop"
    /\ UNCHANGED <<zip, xi, scratch, xresult, bvars, hvars, dvars, mvars, avars>>

\* zipfile.ZipFile(archive_path) raises: outer except
XOpenFails ==
    /\ xpc = "open"
    /\ ~zip.openable
    /\ xpc' = "returned"
    /\ xresult' = Some(ExtractFailure)
    /\ UNCHANGED <<zip, xi, scratch, bvars, hvars, dvars, mvars, avars>>

XEntry ==
    /\ xpc = "loop"
    /\ xi <= Len(zip.entries)
    /\ scratch' = ExtractEntry(scratch, zip.entries[xi])
    /\ xi' = xi + 1
    /\ UNCHANGED <<zip, xpc, xresult, bvars, hvars, dvars, mvars, avars>>

XReturn ==
    /\ xpc = "loop"
    /\ xi > Len(zip.entries)
    /\ xpc' = "returned"
    /\ xresult' = Some(ExtractResult(zip.entries, scratch))
    /\ UNCHANGED <<zip, xi, scratch, bvars, hvars, dvars, mvars, avars>>

NextExtract == XOpen \/ XOpenFails \/ XEntry \/ XReturn

SpecExtract == InitExtract /\ [][NextExtract]_vars

\* ------------------------------------------------------------------------
\* SpecTraversal: extract_archive_safe applied to archives whose entry names
\* have directory components
\* ------------------------------------------------------------------------

\* longest archive explored by SpecTraversal
MaxTraversalEntries == 2

\* "../../evil.pdf", "/etc/passwd" (the component "/" stands for the root),
\* "x/y/a.pdf", "a/.." and "a.pdf"
TraversalNames ==
    { MkName(<<"..", "..">>, "evil", <<>>, "pdf"),
      MkName(<<"/", "etc">>, "passwd", <<>>, ""),
      MkName(<<"x", "y">>, "a", <<>>, "pdf"),
      MkName(<<"a">>, "..", <<>>, ""),
      MkName(<<>>, "a", <<>>, "pdf") }

TraversalEntries == [name : TraversalNames, isdir : {FALSE}, outcome : Outcomes]

TraversalArchives ==
    [openable : BOOLEAN, entries : SeqsUpTo(TraversalEntries, MaxTraversalEntries)]

InitTraversal ==
    /\ zip \in TraversalArchives
    /\ xpc = "open"
    /\ xi = 1
    /\ scratch = EmptyScratch
    /\ xresult = None
    /\ IdleBatch({"e1"}, {"c1"})
    /\ IdleHistory({})
    /\ IdleDispatch
    /\ IdleMigrate /\ IdleArchiveExtractor

SpecTraversal == InitTraversal /\ [][NextExtract]_vars

\* ------------------------------------------------------------------------
\* SpecFormats: extract_archive_safe applied to archives of one entry, for
\* every extension of the table SUPPORTED_FORMATS
\* ------------------------------------------------------------------------

TableExtensions == UNION {SupportedExtensions(fmt) : fmt \in SUPPORTED_FORMATS}

FormatEntries ==
    [name : {MkName(<<>>, "f", <<>>, ext) : ext \in TableExtensions},
     isdir : {FALSE}, outcome : Outcomes]

FormatArchives ==
    [openable : {TRUE}, entries : [1..1 -> FormatEntries]]
      \cup {[openable |-> FALSE, entries |-> <<>>]}

InitFormats ==
    /\ zip \in FormatArchives
    /\ xpc = "open"
    /\ xi = 1
    /\ scratch = EmptyScratch
    /\ xresult = None
    /\ IdleBatch({"e1"}, {"c1"})
    /\ IdleHistory({})
    /\ IdleDispatch
    /\ IdleMigrate /\ IdleArchiveExtractor

SpecFormats == InitFormats /\ [][NextExtract]_vars

\* ------------------------------------------------------------------------
\* SpecDispatch: convert_file_content applied to every tag and every
\* behaviour of the converters
\* ------------------------------------------------------------------------

\* the tags a caller can pass: the keys of SUPPORTED_FORMATS, and the tags
\* "unknown" and "text" that extraction assigns
AllTags == SUPPORTED_FORMATS \cup {"unknown", "text"}

Messages == {"boom", "timeout"}

ConverterOutcomes == {Returns} \cup {Raises(m) : m \in Messages}

InitDispatch ==
    /\ dfmt \in AllTags
    /\ dconv \in [primary : ConverterOutcomes, fallback : ConverterOutcomes]
    /\ dresult = None
    /\ dcalls = <<>>
    /\ IdleBatch({"e1"}, {"c1"})
    /\ IdleExtractor
    /\ IdleHistory({})
    /\ IdleMigrate /\ IdleArchiveExtractor

DispatchCall ==
    /\ dresult = None
    /\ dresult' = Some(convert_file_content(dfmt, dconv))
    /\ dcalls' = ConvertersCalled(dfmt, dconv)
    /\ UNCHANGED <<dfmt, dconv, bvars, xvars, hvars, mvars, avars>>

NextDispatch == DispatchCall

SpecDispatch == InitDispatch /\ [][NextDispatch]_vars

\* ------------------------------------------------------------------------
\* The batch registry and its request handlers
\* ------------------------------------------------------------------------

\* longest archive uploaded as a batch
MaxBatchEntries == 2

\* the entries of the archives uploaded as a batch: a.pdf (also encrypted),
\* x/a.pdf, b.txt (also truncated), c.csv and readme
BatchEntries ==
    { [name |-> MkName(<<>>, "a", <<>>, "pdf"), isdir |-> FALSE, outcome |-> "ok"],
      [name |-> MkName(<<>>, "a", <<>>, "pdf"), isdir |-> FALSE, outcome |-> "fail_open"],
      [name |-> MkName(<<"x">>, "a", <<>>, "pdf"), isdir |-> FALSE, outcome |-> "ok"],
      [name |-> MkName(<<>>, "b", <<>>, "txt"), isdir |-> FALSE, outcome |-> "ok"],
      [name |-> MkName(<<>>, "b", <<>>, "txt"), isdir |-> FALSE, outcome |-> "fail_eof"],
      [name |-> MkName(<<>>, "c", <<>>, "csv"), isdir |-> FALSE, outcome |-> "ok"],
      [name |-> MkName(<<>>, "readme", <<>>, ""), isdir |-> FALSE, outcome |-> "ok"] }

BatchArchives ==
    [openable : {TRUE}, entries : SeqsUpTo(BatchEntries, MaxBatchEntries)]
      \cup {[openable |-> FALSE, entries |-> <<>>]}

\* get_batch_status: batch_conversion_status.get(batch_id, {}) is truthy
Known(b) == b \in DOMAIN batch_conversion_status

\* the dict object registered for b; every handler and worker holds a
\* reference to this one object and assigns to its keys in place
Batch(b) == batch_conversion_status[b]

Registered(reg, b, job) == [x \in DOMAIN reg \cup {b} |-> IF x = b THEN job ELSE reg[x]]

\* upload_batch: saves the archive and registers a new BatchJob
upload_batch(b, archive) ==
    /\ ~Known(b)
    /\ batch_conversion_status' = Registered(batch_conversion_status, b,
          [ archive             |-> archive,
            status              |-> "uploaded",
            total_files         |-> 0,
            extracted_files     |-> 0,
            failed_files        |-> 0,
            files               |-> <<>>,
            files_gen           |-> 0,
            error               |-> None,
            conversion_progress |-> None ])
    /\ UNCHANGED <<reqvars, wvars, response, xvars, hvars, dvars, mvars, avars>>

\* extract_batch, lines 649-660: look the batch up and check its status
extract_batch_check(r, b) ==
    /\ epc[r] = "idle"
    /\ epc' = [epc EXCEPT ![r] =
                 IF ~Known(b) THEN "404"
                 ELSE IF Batch(b).status # "uploaded" THEN "400"
                 ELSE "checked"]
    /\ UNCHANGED <<batch_conversion_status, cpc, cbody, wvars, response, xvars, hvars, dvars, mvars, avars>>

\* extract_batch, lines 663-664
extract_batch_mark(r, b) ==
    /\ epc[r] = "checked"
    /\ batch_conversion_status' = [batch_conversion_status EXCEPT ![b].status = "extracting"]
    /\ epc' = [epc EXCEPT ![r] = "marked"]
    /\ UNCHANGED <<cpc, cbody, wvars, response, xvars, hvars, dvars, mvars, avars>>

\* extract_batch, lines 666-703: run the extractor and record the outcome
extract_batch_run(r, b) ==
    /\ epc[r] = "marked"
    /\ LET extract_result == extract_archive_safe(Batch(b).archive)
       IN  IF extract_result.success
             THEN /\ batch_conversion_status' = [batch_conversion_status EXCEPT
                        ![b].status = "extracted",
                        ![b].total_files = extract_result.total_files,
                        ![b].extracted_files = extract_result.extracted_files,
                        ![b].failed_files = extract_result.failed_files,
                        ![b].files = extract_result.files,
                        ![b].files_gen = @ + 1]
                  /\ epc' = [epc EXCEPT ![r] = "200"]
             ELSE /\ batch_conversion_status' = [batch_conversion_status EXCEPT
                        ![b].status = "extract_failed",
                        ![b].error = Some("extract failed")]
                  /\ epc' = [epc EXCEPT ![r] = "500"]
    /\ UNCHANGED <<cpc, cbody, wvars, response, xvars, hvars, dvars, mvars, avars>>

\* what the caller puts in the JSON body of POST /convert/batch/<id>:
\*   "none"     no body, or an empty "files" list
\*   "members"  the member dicts of the extract response, all of them
\*   "names"    the members' file names, as strings
Bodies == {"none", "members", "names"}

AsDict(f) == [isdict |-> TRUE, filename |-> f.filename,
              extracted_path |-> f.extracted_path, error |-> f.error]

AsName(f) == [isdict |-> FALSE, filename |-> f.filename,
              extracted_path |-> None, error |-> None]

\* f.get('extracted_path') and not f.get('error')
Convertible(f) == f.extracted_path # None /\ ~Truthy(f.error)

\* data.get('files', []) of the request body
BodyFiles(body, files) ==
    CASE body = "members" -> [i \in DOMAIN files |-> AsDict(files[i])]
      [] body = "names"   -> [i \in DOMAIN files |-> AsName(files[i])]
      [] OTHER            -> <<>>

\* convert_batch, lines 730-735
SelectedFiles(body, files) ==
    IF BodyFiles(body, files) # <<>>
      THEN BodyFiles(body, files)
      ELSE LET sel == SelectSeq(files, Convertible)
           IN  [i \in DOMAIN sel |-> AsDict(sel[i])]

\* variant: the entries not yet converted are counted as processing
InitialProgress_CountsPending(selected_files) ==
    [total |-> Len(selected_files), completed |-> 0, failed |-> 0,
     processing |-> Len(selected_files)]

\* convert_batch, lines 740-745: the new conversion_progress dict
InitialProgress(selected_files) ==
    [total |-> Len(selected_files), completed |-> 0, failed |-> 0, processing |-> 0]

\* variant: the status of the batch is not looked at
convert_batch_check_IgnoresStatus(r, b) ==
    /\ cpc[r] = "idle"
    /\ cpc' = [cpc EXCEPT ![r] = IF ~Known(b) THEN "404" ELSE "checked"]
    /\ UNCHANGED <<batch_conversion_status, epc, cbody, wvars, response, xvars, hvars, dvars, mvars, avars>>

\* convert_batch, lines 716-727: look the batch up and check its status
convert_batch_check(r, b) ==
    /\ cpc[r] = "idle"
    /\ cpc' = [cpc EXCEPT ![r] =
                 IF ~Known(b) THEN "404"
                 ELSE IF Batch(b).status # "extracted" THEN "400"
                 ELSE "checked"]
    /\ UNCHANGED <<batch_conversion_status, epc, cbody, wvars, response, xvars, hvars, dvars, mvars, avars>>

\* convert_batch, lines 729-767: select, reset the progress counters and
\* start the worker thread
convert_batch_start(r, b, body) ==
    /\ cpc[r] = "checked"
    /\ LET selected_files == SelectedFiles(body, Batch(b).files)
       IN  /\ batch_conversion_status' = [batch_conversion_status EXCEPT
                 ![b].status = "converting",
                 ![b].conversion_progress = Some(InitialProgress(selected_files))]
           /\ wfiles' = [wfiles EXCEPT ![r] = selected_files]
    /\ wpc' = [wpc EXCEPT ![r] = "loop"]
    /\ cpc' = [cpc EXCEPT ![r] = "200"]
    /\ cbody' = [cbody EXCEPT ![r] = body]
    /\ UNCHANGED <<epc, wi, wg, response, xvars, hvars, dvars, mvars, avars>>

\* ------------------------------------------------------------------------
\* convert_batch_files: the background worker of one convert request
\* ------------------------------------------------------------------------

\* "for f in batch_status['files']: if f['filename'] == name: ... break"
FindMember(files, name) ==
    IF \E i \in DOMAIN files : files[i].filename = name
      THEN Some(CHOOSE i \in DOMAIN files :
                  /\ files[i].filename = name
                  /\ \A j \in DOMAIN files : files[j].filename = name => i <= j)
      ELSE None

\* an assignment global_file[key] = ...: global_file is the dict found at
\* position g.idx of the list that batch['files'] held when it was looked
\* up; if the batch has been given a new list since, the assignment lands on
\* the old dict and the registry does not show it
SetStatus(reg, b, g, st, err) ==
    IF g.gen = reg[b].files_gen
      THEN [reg EXCEPT ![b].files[g.idx].conversion_status = st,
                       ![b].files[g.idx].conversion_error = err]
      ELSE reg

Progress(b) == Batch(b).conversion_progress[1]

\* batch_status['conversion_progress'][key] += n
AddProgress(reg, b, key, n) == [reg EXCEPT ![b].conversion_progress[1][key] = @ + n]

\* lines 780-807: next entry; skip it, or find its member, mark it
\* processing and count it
worker_next(w, b) ==
    /\ wpc[w] = "loop"
    /\ wi[w] <= Len(wfiles[w])
    /\ LET file_info == wfiles[w][wi[w]]
           found == FindMember(Batch(b).files, file_info.filename)
       IN  IF ~file_info.isdict
             THEN \* file_info['filename'] raises, and so does the handler's
                  \* file_info.get: the exception leaves the loop
                  /\ wpc' = [wpc EXCEPT ![w] = "raised"]
                  /\ UNCHANGED <<batch_conversion_status, wi, wg>>
           ELSE IF file_info.extracted_path = None \/ Truthy(file_info.error)
                   \/ found = None
             THEN \* continue
                  /\ wi' = [wi EXCEPT ![w] = @ + 1]
                  /\ UNCHANGED <<batch_conversion_status, wpc, wg>>
           ELSE LET g == [gen |-> Batch(b).files_gen, idx |-> found[1]]
                IN  /\ batch_conversion_status' =
                          AddProgress(SetStatus(batch_conversion_status, b, g, "processing", None),
                                      b, "processing", 1)
                    /\ wg' = [wg EXCEPT ![w] = Some(g)]
                    /\ wpc' = [wpc EXCEPT ![w] = "convert"]
                    /\ UNCHANGED wi
    /\ UNCHANGED <<reqvars, wfiles, response, xvars, hvars, dvars, mvars, avars>>

\* lines 809-847, with the branches 816-821 and 867-881: the format check,
\* the dispatch call, the member's new conversion_status and, for a member
\* that failed, the count of the outcome
worker_convert(w, b, conv) ==
    /\ wpc[w] = "convert"
    /\ LET g == wg[w][1]
           file_format == Batch(b).files[g.idx].format
           file_info == wfiles[w][wi[w]]
           content == convert_file_content(file_format, conv)
           found == FindMember(Batch(b).files, file_info.filename)
       IN  IF file_format \notin SUPPORTED_FORMATS
             THEN /\ batch_conversion_status' =
                        AddProgress(SetStatus(batch_conversion_status, b, g, "failed",
                                              Some("unsupported format")),
                                    b, "failed", 1)
                  /\ wpc' = [wpc EXCEPT ![w] = "dec"]
                  /\ UNCHANGED <<wi, wg>>
           ELSE IF content.kind # "raise"
             THEN /\ batch_conversion_status' =
                        SetStatus(batch_conversion_status, b, g, "completed", None)
                  /\ wpc' = [wpc EXCEPT ![w] = "history"]
                  /\ UNCHANGED <<wi, wg>>
           ELSE IF found # None
             THEN \* except branch: global_file is looked up again
                  LET h == [gen |-> Batch(b).files_gen, idx |-> found[1]]
                  IN  /\ batch_conversion_status' =
                            AddProgress(SetStatus(batch_conversion_status, b, h, "failed",
                                                  Some("exception")),
                                        b, "failed", 1)
                      /\ wg' = [wg EXCEPT ![w] = Some(h)]
                      /\ wpc' = [wpc EXCEPT ![w] = "dec"]
                      /\ UNCHANGED wi
           ELSE /\ wi' = [wi EXCEPT ![w] = @ + 1]
                /\ wpc' = [wpc EXCEPT ![w] = "loop"]
                /\ UNCHANGED <<batch_conversion_status, wg>>
    /\ UNCHANGED <<reqvars, wfiles, response, xvars, hvars, dvars, mvars, avars>>

\* variant: the member just converted is not recorded
worker_add_to_history_Skips(w, b) ==
    /\ wpc[w] = "history"
    /\ wpc' = [wpc EXCEPT ![w] = "count"]
    /\ UNCHANGED <<batch_conversion_status, reqvars, wi, wfiles, wg, response, xvars,
                   hvars, dvars, mvars, avars>>

\* lines 850-858: add_to_history for the member just converted
worker_add_to_history(w, b) ==
    /\ wpc[w] = "history"
    /\ LET g == wg[w][1]
           f == IF g.gen = Batch(b).files_gen
                  THEN Batch(b).files[g.idx]
                  ELSE [filename |-> wfiles[w][wi[w]].filename, format |-> "unknown"]
       IN  history' = InsertRecord(history, NewRecord(nextid, f.filename, f.format))
    /\ nextid' = nextid + 1
    /\ wpc' = [wpc EXCEPT ![w] = "count"]
    /\ UNCHANGED <<batch_conversion_status, reqvars, wi, wfiles, wg, response, xvars,
                   hpc, hop, hlocal, hresp, dvars, mvars, avars>>

\* line 861
worker_count_completed(w, b) ==
    /\ wpc[w] = "count"
    /\ batch_conversion_status' = AddProgress(batch_conversion_status, b, "completed", 1)
    /\ wpc' = [wpc EXCEPT ![w] = "dec"]
    /\ UNCHANGED <<reqvars, wi, wfiles, wg, response, xvars, hvars, dvars, mvars, avars>>

\* lines 822, 862 and 882, then the next iteration
worker_dec_processing(w, b) ==
    /\ wpc[w] = "dec"
    /\ batch_conversion_status' = AddProgress(batch_conversion_status, b, "processing", -1)
    /\ wi' = [wi EXCEPT ![w] = @ + 1]
    /\ wpc' = [wpc EXCEPT ![w] = "loop"]
    /\ UNCHANGED <<reqvars, wfiles, wg, response, xvars, hvars, dvars, mvars, avars>>

\* lines 885-888: the loop is over
worker_finish(w, b) ==
    /\ wpc[w] = "loop"
    /\ wi[w] > Len(wfiles[w])
    /\ batch_conversion_status' = [batch_conversion_status EXCEPT ![b].status = "completed"]
    /\ wpc' = [wpc EXCEPT ![w] = "done"]
    /\ UNCHANGED <<reqvars, wi, wfiles, wg, response, xvars, hvars, dvars, mvars, avars>>

\* async_convert, lines 752-757: an exception left convert_batch_files
async_convert_except(w, b) ==
    /\ wpc[w] = "raised"
    /\ batch_conversion_status' = [batch_conversion_status EXCEPT
          ![b].status = "conversion_failed",
          ![b].error = Some("exception")]
    /\ wpc' = [wpc EXCEPT ![w] = "done"]
    /\ UNCHANGED <<reqvars, wi, wfiles, wg, response, xvars, hvars, dvars, mvars, avars>>

\* ------------------------------------------------------------------------
\* GET /status/batch/<id>
\* ------------------------------------------------------------------------

\* get_batch_conversion_status: the response carries the batch dict as it
\* is when it is serialised
get_batch_conversion_status(b) ==
    /\ response' =
         IF Known(b)
           THEN Some([code |-> 200, status |-> Batch(b).status,
                      conversion_progress |-> Batch(b).conversion_progress])
           ELSE Some([code |-> 404, status |-> "None", conversion_progress |-> None])
    /\ UNCHANGED <<batch_conversion_status, reqvars, wvars, xvars, hvars, dvars, mvars, avars>>

\* ------------------------------------------------------------------------
\* Spec: one batch, concurrent requests, the workers they start
\* ------------------------------------------------------------------------

Init == IdleBatch({"e1"}, {"c1"}) /\ IdleExtractor /\ IdleHistory({}) /\ IdleDispatch /\ IdleMigrate /\ IdleArchiveExtractor

Upload == \E b \in BatchIds, archive \in BatchArchives : upload_batch(b, archive)

ExtractCheck == \E r \in ExtractReqs, b \in BatchIds : extract_batch_check(r, b)

ExtractMark == \E r \in ExtractReqs, b \in BatchIds : extract_batch_mark(r, b)

ExtractRun == \E r \in ExtractReqs, b \in BatchIds : extract_batch_run(r, b)

ConvertCheck == \E r \in ConvertReqs, b \in BatchIds : convert_batch_check(r, b)

ConvertStart == \E r \in ConvertReqs, b \in BatchIds, body \in Bodies : convert_batch_start(r, b, body)

WorkerNext == \E w \in ConvertReqs, b \in BatchIds : worker_next(w, b)


WorkerConvert == \E w \in ConvertReqs, b \in BatchIds, conv \in ConverterBehaviours : worker_convert(w, b, conv)



WorkerAddToHistory == \E w \in ConvertReqs, b \in BatchIds : worker_add_to_history(w, b)

WorkerCountCompleted == \E w \in ConvertReqs, b \in BatchIds : worker_count_completed(w, b)

WorkerDecProcessing == \E w \in ConvertReqs, b \in BatchIds : worker_dec_processing(w, b)

WorkerFinish == \E w \in ConvertReqs, b \in BatchIds : worker_finish(w, b)

AsyncConvertExcept == \E w \in ConvertReqs, b \in BatchIds : async_convert_except(w, b)

StatusRead == \E b \in BatchIds : get_batch_conversion_status(b)

WorkerStep ==
    \/ WorkerNext \/ WorkerConvert \/ WorkerAddToHistory \/ WorkerCountCompleted
    \/ WorkerDecProcessing \/ WorkerFinish \/ AsyncConvertExcept

Next ==
    \/ Upload
    \/ ExtractCheck \/ ExtractMark \/ ExtractRun
    \/ ConvertCheck \/ ConvertStart
    \/ WorkerNext \/ WorkerConvert \/ WorkerAddToHistory \/ WorkerCountCompleted
    \/ WorkerDecProcessing \/ WorkerFinish \/ AsyncConvertExcept
    \/ StatusRead

Spec == Init /\ [][Next]_vars

\* the same, with the scheduling the threads get: a request handler that
\* has started and a worker thread that has been started keep running
HandlerStep == ExtractMark \/ ExtractRun \/ ConvertStart

FairSpec == Spec /\ WF_vars(WorkerStep) /\ WF_vars(HandlerStep)

\* ------------------------------------------------------------------------
\* SpecRace: two extract requests and two convert requests for one batch,
\* served by concurrent threads
\* ------------------------------------------------------------------------

\* longest archive uploaded in SpecRace
MaxRaceEntries == 1

RaceEntries ==
    { [name |-> MkName(<<>>, "c", <<>>, "csv"), isdir |-> FALSE, outcome |-> "ok"],
      [name |-> MkName(<<>>, "b", <<>>, "txt"), isdir |-> FALSE, outcome |-> "ok"],
      [name |-> MkName(<<"x">>, "a", <<>>, "pdf"), isdir |-> FALSE, outcome |-> "ok"],
      [name |-> MkName(<<>>, "a", <<>>, "pdf"), isdir |-> FALSE, outcome |-> "fail_open"] }

RaceArchives ==
    [openable : {TRUE}, entries : SeqsUpTo(RaceEntries, MaxRaceEntries)]
      \cup {[openable |-> FALSE, entries |-> <<>>]}

InitRace ==
    IdleBatch({"e1", "e2"}, {"c1", "c2"}) /\ IdleExtractor /\ IdleHistory({}) /\ IdleDispatch /\ IdleMigrate /\ IdleArchiveExtractor

UploadRace == \E b \in BatchIds, archive \in RaceArchives : upload_batch(b, archive)

NextRace ==
    \/ UploadRace
    \/ ExtractCheck \/ ExtractMark \/ ExtractRun
    \/ ConvertCheck \/ ConvertStart
    \/ WorkerNext \/ WorkerConvert \/ WorkerAddToHistory \/ WorkerCountCompleted
    \/ WorkerDecProcessing \/ WorkerFinish \/ AsyncConvertExcept

SpecRace == InitRace /\ [][NextRace]_vars

\* ------------------------------------------------------------------------
\* SpecGuards: requests that arrive when their precondition does not hold:
\* two extract and two convert requests for one batch, and requests and
\* status reads for a batch id that is never uploaded
\* ------------------------------------------------------------------------

\* a batch id no upload has returned
UnknownId == "b2"

GuardArchives ==
    { [openable |-> FALSE, entries |-> <<>>],
      [openable |-> TRUE,
       entries |-> <<[name |-> MkName(<<>>, "c", <<>>, "csv"), isdir |-> FALSE, outcome |-> "ok"]>>] }

InitGuards ==
    IdleBatch({"e1", "e2"}, {"c1", "c2"}) /\ IdleExtractor /\ IdleHistory({}) /\ IdleDispatch /\ IdleMigrate /\ IdleArchiveExtractor

UploadGuards == \E b \in BatchIds, archive \in GuardArchives : upload_batch(b, archive)

ExtractUnknown == \E r \in ExtractReqs : extract_batch_check(r, UnknownId)

ConvertUnknown == \E r \in ConvertReqs : convert_batch_check(r, UnknownId)

StatusReadUnknown == get_batch_conversion_status(UnknownId)

NextGuards ==
    \/ UploadGuards
    \/ ExtractCheck \/ ExtractMark \/ ExtractRun
    \/ ConvertCheck \/ ConvertStart
    \/ WorkerNext \/ WorkerConvert \/ WorkerAddToHistory \/ WorkerCountCompleted
    \/ WorkerDecProcessing \/ WorkerFinish \/ AsyncConvertExcept
    \/ StatusRead
    \/ ExtractUnknown \/ ConvertUnknown \/ StatusReadUnknown

SpecGuards == InitGuards /\ [][NextGuards]_vars

\* ------------------------------------------------------------------------
\* Requests on the history log
\* ------------------------------------------------------------------------

\* number of uuids handed out in SpecHistory and SpecHistorySeq
MaxHistoryIds == 4

\* add_to_history, line 161 and the record built at 162-171: the history
\* file is loaded; the caller is a single-file conversion request
add_to_history_load(t) ==
    /\ hpc[t] = "idle"
    /\ nextid <= MaxHistoryIds
    /\ hlocal' = [hlocal EXCEPT ![t] = history]
    /\ hop' = [hop EXCEPT ![t] = [op |-> "add", id |-> nextid]]
    /\ nextid' = nextid + 1
    /\ hpc' = [hpc EXCEPT ![t] = "loaded"]
    /\ hresp' = [hresp EXCEPT ![t] = 0]
    /\ UNCHANGED <<history, bvars, xvars, dvars, mvars, avars>>

\* add_to_history, lines 172-179: insert, truncate, save
add_to_history_save(t) ==
    /\ hpc[t] = "loaded"
    /\ hop[t].op = "add"
    /\ history' = InsertRecord(hlocal[t], NewRecord(hop[t].id, MkName(<<>>, "a", <<>>, "pdf"), "pdf"))
    /\ hpc' = [hpc EXCEPT ![t] = "idle"]
    /\ hop' = [hop EXCEPT ![t] = [op |-> "none", id |-> 0]]
    /\ hlocal' = [hlocal EXCEPT ![t] = <<>>]
    /\ hresp' = [hresp EXCEPT ![t] = 200]
    /\ UNCHANGED <<nextid, bvars, xvars, dvars, mvars, avars>>

\* delete_history_item, lines 548-555: load, filter, answer 404 if nothing
\* was filtered out
delete_history_item_load(t, id) ==
    /\ hpc[t] = "idle"
    /\ IF Len(WithoutId(history, id)) = Len(history)
         THEN /\ hresp' = [hresp EXCEPT ![t] = 404]
              /\ UNCHANGED <<hpc, hop, hlocal>>
         ELSE /\ hlocal' = [hlocal EXCEPT ![t] = history]
              /\ hop' = [hop EXCEPT ![t] = [op |-> "delete", id |-> id]]
              /\ hpc' = [hpc EXCEPT ![t] = "loaded"]
              /\ hresp' = [hresp EXCEPT ![t] = 0]
    /\ UNCHANGED <<history, nextid, bvars, xvars, dvars, mvars, avars>>

\* delete_history_item, lines 557-561: save the filtered list
delete_history_item_save(t) ==
    /\ hpc[t] = "loaded"
    /\ hop[t].op = "delete"
    /\ history' = WithoutId(hlocal[t], hop[t].id)
    /\ hpc' = [hpc EXCEPT ![t] = "idle"]
    /\ hop' = [hop EXCEPT ![t] = [op |-> "none", id |-> 0]]
    /\ hlocal' = [hlocal EXCEPT ![t] = <<>>]
    /\ hresp' = [hresp EXCEPT ![t] = 200]
    /\ UNCHANGED <<nextid, bvars, xvars, dvars, mvars, avars>>

\* clear_history: save_history([])
clear_history(t) ==
    /\ hpc[t] = "idle"
    /\ history' = <<>>
    /\ hresp' = [hresp EXCEPT ![t] = 200]
    /\ UNCHANGED <<nextid, hpc, hop, hlocal, bvars, xvars, dvars, mvars, avars>>

\* get_history: load_history and return it
get_history(t) ==
    /\ hpc[t] = "idle"
    /\ hresp' = [hresp EXCEPT ![t] = 200]
    /\ UNCHANGED <<history, nextid, hpc, hop, hlocal, bvars, xvars, dvars, mvars, avars>>

AddLoad == \E t \in HistoryReqs : add_to_history_load(t)

AddSave == \E t \in HistoryReqs : add_to_history_save(t)

DeleteLoad == \E t \in HistoryReqs, id \in 1..(MaxHistoryIds + 1) : delete_history_item_load(t, id)

DeleteSave == \E t \in HistoryReqs : delete_history_item_save(t)

ClearHistory == \E t \in HistoryReqs : clear_history(t)

GetHistory == \E t \in HistoryReqs : get_history(t)

NextHistory == AddLoad \/ AddSave \/ DeleteLoad \/ DeleteSave \/ ClearHistory \/ GetHistory

\* SpecHistory: two request threads working on the history log
InitHistory ==
    IdleHistory({"h1", "h2"}) /\ IdleBatch({"e1"}, {"c1"}) /\ IdleExtractor /\ IdleDispatch /\ IdleMigrate /\ IdleArchiveExtractor

SpecHistory == InitHistory /\ [][NextHistory]_vars

\* SpecHistorySeq: the same requests, served one after the other
InitHistorySeq ==
    IdleHistory({"h1"}) /\ IdleBatch({"e1"}, {"c1"}) /\ IdleExtractor /\ IdleDispatch /\ IdleMigrate /\ IdleArchiveExtractor

SpecHistorySeq == InitHistorySeq /\ [][NextHistory]_vars

\* ------------------------------------------------------------------------
\* SpecHistoryCap: a long sequence of add_to_history calls, one at a time
\* ------------------------------------------------------------------------

\* number of add_to_history calls explored by SpecHistoryCap
MaxRecords == 102

\* a whole call of add_to_history
add_to_history(original_name, file_format) ==
    /\ nextid <= MaxRecords
    /\ history' = InsertRecord(history, NewRecord(nextid, original_name, file_format))
    /\ nextid' = nextid + 1
    /\ UNCHANGED <<hpc, hop, hlocal, hresp, bvars, xvars, dvars, mvars, avars>>

RecordCall == add_to_history(MkName(<<>>, "a", <<>>, "pdf"), "pdf")

ClearCall ==
    /\ history # <<>>
    /\ history' = <<>>
    /\ UNCHANGED <<nextid, hpc, hop, hlocal, hresp, bvars, xvars, dvars, mvars, avars>>

NextHistoryCap == RecordCall \/ ClearCall

InitHistoryCap ==
    IdleHistory({}) /\ IdleBatch({"e1"}, {"c1"}) /\ IdleExtractor /\ IdleDispatch /\ IdleMigrate /\ IdleArchiveExtractor

SpecHistoryCap == InitHistoryCap /\ [][NextHistoryCap]_vars

\* ------------------------------------------------------------------------
\* Storage migration (file_migrator.py)
\*
\* The files on disk are a set of paths, a path being the sequence of its
\* components.  A migration state is [fs, n]: the files, and the number of
\* shutil.move calls made so far by the forward migration; the call number
\* failAt raises and moves nothing (failAt = 0: no call raises).
\* ------------------------------------------------------------------------

\* largest number of the shutil.move call that is made to raise
MaxFailAt == 6

IsPrefix(p, q) == Len(p) <= Len(q) /\ SubSeq(q, 1, Len(p)) = p

\* os.path.exists, for a file or for a directory that holds files
ExistsPath(fs, p) == \E q \in fs : IsPrefix(p, q)

\* os.path.isdir
IsDir(fs, p) == \E q \in fs : IsPrefix(p, q) /\ q # p

\* shutil.move(src, dst)
MoveFile(fs, src, dst) == (fs \ {src}) \cup {dst}

\* os.listdir: the order in which the names of a directory are listed
ItemNames == <<"a", "m", "z">>

\* _migrate_directory, lines 207-209: "for moved_file, original_file in
\* zip(migrated_files, removed_files)"
RECURSIVE RollbackPairs(_, _, _, _)
RollbackPairs(fs, migrated, removed, k) ==
    IF k > Len(migrated) \/ k > Len(removed) THEN fs
    ELSE RollbackPairs(IF migrated[k] \in fs
                         THEN MoveFile(fs, migrated[k], removed[k])
                         ELSE fs,
                       migrated, removed, k + 1)

\* _migrate_directory, lines 191-212 and the except branch 227-228: the
\* loop over os.listdir(src_dir), from item i on
RECURSIVE MigrateItems(_, _, _, _, _, _, _)
MigrateItems(s, src, dst, i, migrated, removed, failAt) ==
    IF i > Len(ItemNames)
      THEN [success |-> TRUE, migrated_files |-> migrated, fs |-> s.fs, n |-> s.n]
    ELSE LET src_path == Append(src, ItemNames[i])
             dst_path == Append(dst, ItemNames[i])
         IN  IF src_path \in s.fs
               THEN IF s.n + 1 = failAt
                      THEN [success |-> FALSE, migrated_files |-> <<>>, fs |-> s.fs, n |-> s.n + 1]
                      ELSE MigrateItems([fs |-> MoveFile(s.fs, src_path, dst_path), n |-> s.n + 1],
                                        src, dst, i + 1,
                                        Append(migrated, dst_path), Append(removed, src_path),
                                        failAt)
             ELSE IF IsDir(s.fs, src_path)
               THEN LET sub_result == MigrateItems(s, src_path, dst_path, 1, <<>>, <<>>, failAt)
                    IN  IF ~sub_result.success
                          THEN [success |-> FALSE, migrated_files |-> <<>>,
                                fs |-> RollbackPairs(sub_result.fs, migrated, removed, 1),
                                n |-> sub_result.n]
                          ELSE MigrateItems([fs |-> sub_result.fs, n |-> sub_result.n],
                                            src, dst, i + 1,
                                            migrated \o sub_result.migrated_files, removed,
                                            failAt)
             ELSE MigrateItems(s, src, dst, i + 1, migrated, removed, failAt)

\* _migrate_directory(src_dir, dst_dir)
MigrateDirectory(s, src_dir, dst_dir, failAt) ==
    IF ~ExistsPath(s.fs, src_dir)
      THEN [success |-> TRUE, migrated_files |-> <<>>, fs |-> s.fs, n |-> s.n]
      ELSE MigrateItems(s, src_dir, dst_dir, 1, <<>>, <<>>, failAt)

\* _migrate_file(src_file, dst_file)
MigrateFile(s, src_file, dst_file, failAt) ==
    IF src_file \notin s.fs
      THEN [success |-> TRUE, migrated_files |-> <<>>, fs |-> s.fs, n |-> s.n]
    ELSE IF s.n + 1 = failAt
      THEN [success |-> FALSE, migrated_files |-> <<>>, fs |-> s.fs, n |-> s.n + 1]
    ELSE [success |-> TRUE, migrated_files |-> <<dst_file>>,
          fs |-> MoveFile(s.fs, src_file, dst_file), n |-> s.n + 1]

\* _rollback_directory_migration(src_dir, dst_dir, migrated_files): every
\* file goes to os.path.join(dst_dir, os.path.basename(file_path))
RECURSIVE RollbackDirectoryMigration(_, _, _, _)
RollbackDirectoryMigration(fs, dst_dir, migrated_files, k) ==
    IF k > Len(migrated_files) THEN fs
    ELSE LET file_path == migrated_files[k]
             original_path == Append(dst_dir, file_path[Len(file_path)])
         IN  RollbackDirectoryMigration(
                 IF file_path \in fs THEN MoveFile(fs, file_path, original_path) ELSE fs,
                 dst_dir, migrated_files, k + 1)

\* the storage paths of the old and of the new configuration
OldPath(kind) ==
    CASE kind = "upload"   -> <<"uploads">>
      [] kind = "download" -> <<"downloads">>
      [] OTHER             -> <<"history.json">>

NewPath(kind) ==
    CASE kind = "upload"   -> <<"data", "uploads">>
      [] kind = "download" -> <<"data", "downloads">>
      [] OTHER             -> <<"data", "history.json">>

\* migrate_storage_directories: changes is the set of storage paths that
\* differ between old_config and new_config; the result is
\* [success, fs]
migrate_storage_directories(fs, changes, failAt) ==
    LET s0 == [fs |-> fs, n |-> 0]
        skipped(s) == [success |-> TRUE, migrated_files |-> <<>>, fs |-> s.fs, n |-> s.n]
        upload_result ==
            IF "upload" \in changes
              THEN MigrateDirectory(s0, OldPath("upload"), NewPath("upload"), failAt)
              ELSE skipped(s0)
        download_result ==
            IF "download" \in changes
              THEN MigrateDirectory(upload_result, OldPath("download"), NewPath("download"), failAt)
              ELSE skipped(upload_result)
        history_result ==
            IF "history" \in changes
              THEN MigrateFile(download_result, OldPath("history"), NewPath("history"), failAt)
              ELSE skipped(download_result)
        undo_upload(f) ==
            IF "upload" \in changes
              THEN RollbackDirectoryMigration(f, OldPath("upload"), upload_result.migrated_files, 1)
              ELSE f
        undo_download(f) ==
            IF "download" \in changes
              THEN RollbackDirectoryMigration(f, OldPath("download"), download_result.migrated_files, 1)
              ELSE f
    IN  IF changes = {} THEN [success |-> TRUE, fs |-> fs]
        ELSE IF ~upload_result.success
          THEN [success |-> FALSE, fs |-> upload_result.fs]
        ELSE IF ~download_result.success
          THEN [success |-> FALSE, fs |-> undo_upload(download_result.fs)]
        ELSE IF ~history_result.success
          THEN [success |-> FALSE, fs |-> undo_download(undo_upload(history_result.fs))]
        ELSE [success |-> TRUE, fs |-> history_result.fs]

\* the files a storage directory can hold before the migration
StoredFiles == {<<"a">>, <<"m", "a">>, <<"z">>}

Layouts ==
    { {OldPath("upload") \o f : f \in u} \cup {OldPath("download") \o f : f \in d} \cup h :
        u \in SUBSET StoredFiles, d \in SUBSET (StoredFiles \ {<<"z">>}),
        h \in {{}, {OldPath("history")}} }

InitMigrate ==
    /\ mfs \in Layouts
    /\ mreq \in [changes : SUBSET {"upload", "download", "history"},
                  failAt : 0..MaxFailAt, before : {mfs}]
    /\ mresult = None
    /\ IdleBatch({"e1"}, {"c1"})
    /\ IdleExtractor
    /\ IdleHistory({})
    /\ IdleDispatch
    /\ IdleArchiveExtractor

Migrate ==
    /\ mresult = None
    /\ LET result == migrate_storage_directories(mfs, mreq.changes, mreq.failAt)
       IN  /\ mfs' = result.fs
           /\ mresult' = Some(result.success)
    /\ UNCHANGED <<mreq, bvars, xvars, hvars, dvars, avars>>

NextMigrate == Migrate

SpecMigrate == InitMigrate /\ [][NextMigrate]_vars

\* ------------------------------------------------------------------------
\* The class ArchiveExtractor (converters/archive_extractor.py) and its
\* module-global instance
\* ------------------------------------------------------------------------

\* number of extract_archive calls made on the instance
MaxExtractorCalls == 3

\* _detect_file_format: format_map.get(ext, 'unknown')
DetectFileFormat(ext) ==
    CASE ext = "pdf" -> "pdf"
      [] ext \in {"doc", "docx"} -> "word"
      [] ext \in {"xls", "xlsx"} -> "excel"
      [] ext \in {"ppt", "pptx"} -> "ppt"
      [] ext \in {"jpg", "jpeg", "png", "gif", "bmp"} -> "image"
      [] ext \in {"mp3", "wav", "flac", "aac", "ogg", "m4a", "wma"} -> "audio"
      [] ext \in {"mp4", "avi", "mov", "mkv", "wmv", "flv", "webm", "m4v",
                  "3gp", "mpg", "mpeg"} -> "video"
      [] ext \in {"html", "htm"} -> "html"
      [] ext = "txt"  -> "text"
      [] ext = "csv"  -> "csv"
      [] ext = "json" -> "json"
      [] ext = "xml"  -> "xml"
      [] OTHER        -> "unknown"

\* _extract_zip: one iteration of "for file_info in file_list"
ExtractZipEntry(st, e) ==
    IF e.isdir THEN st
    ELSE LET target == FreeName(Basename(e.name), st.dir)
             ok == [OkMember(e, target) EXCEPT !.format = DetectFileFormat(target.ext)]
             failed == [FailedMember(e) EXCEPT !.format = DetectFileFormat(e.name.ext)]
         IN  CASE e.outcome = "ok" ->
                    [dir |-> st.dir \cup {target}, files |-> Append(st.files, ok)]
               [] e.outcome = "fail_open" ->
                    [dir |-> st.dir, files |-> Append(st.files, failed)]
               [] OTHER ->
                    [dir |-> st.dir \cup {target}, files |-> Append(st.files, failed)]

RECURSIVE ExtractZipLoop(_, _, _)
ExtractZipLoop(entries, i, st) ==
    IF i > Len(entries) THEN st
    ELSE ExtractZipLoop(entries, i + 1, ExtractZipEntry(st, entries[i]))

\* create_temp_directory: a directory is made only if self.temp_dir is not
\* set; the value is the contents of the directory the call will work in
create_temp_directory(temp_dir) == IF temp_dir = None THEN {} ELSE temp_dir[1]

\* extract_archive on an instance whose temp_dir is temp_dir: the value is
\* [temp_dir, result], the instance's temp_dir after the call and the dict
\* returned (ExtractFailure stands for the exception raised after
\* cleanup_temp_directory)
extract_archive(temp_dir, archive) ==
    IF archive.openable
      THEN LET st == ExtractZipLoop(archive.entries, 1,
                                    [dir |-> create_temp_directory(temp_dir), files |-> <<>>])
           IN  [temp_dir |-> Some(st.dir), result |-> ExtractResult(archive.entries, st)]
      ELSE [temp_dir |-> None, result |-> ExtractFailure]

ExtractorEntries ==
    { [name |-> MkName(<<>>, "a", <<>>, "pdf"), isdir |-> FALSE, outcome |-> "ok"],
      [name |-> MkName(<<>>, "a", <<>>, "pdf"), isdir |-> FALSE, outcome |-> "fail_copy"],
      [name |-> MkName(<<>>, "b", <<>>, "txt"), isdir |-> FALSE, outcome |-> "ok"] }

ExtractorArchives ==
    [openable : {TRUE}, entries : SeqsUpTo(ExtractorEntries, 2)]
      \cup {[openable |-> FALSE, entries |-> <<>>]}

InitExtractor ==
    /\ IdleArchiveExtractor
    /\ IdleBatch({"e1"}, {"c1"})
    /\ IdleExtractor
    /\ IdleHistory({})
    /\ IdleDispatch
    /\ IdleMigrate

\* one call archive_extractor.extract_archive(archive)
ExtractorCall ==
    /\ acount < MaxExtractorCalls
    /\ \E archive \in ExtractorArchives :
          LET call == extract_archive(atemp, archive)
          IN  /\ atemp' = call.temp_dir
              /\ alast' = Some([archive |-> archive, result |-> call.result])
    /\ acount' = acount + 1
    /\ UNCHANGED <<bvars, xvars, hvars, dvars, mvars>>

NextExtractor == ExtractorCall

SpecExtractor == InitExtractor /\ [][NextExtractor]_vars

\* ------------------------------------------------------------------------
\* Properties of extraction
\* ------------------------------------------------------------------------

Returned == xpc = "returned"

NonDirEntries == SelectSeq(zip.entries, NotDir)

\* C7: a successful extract() of a ZIP with N non-directory entries returns
\* exactly N members, total_files = N and extracted_files + failed_files = N,
\* whatever mix of entries succeeds or fails; directory entries are skipped.
C7_ExtractCounts ==
    (Returned /\ xresult[1].success) =>
        LET r == xresult[1]
            N == CountSeq(zip.entries, NotDir)
        IN  /\ Len(r.files) = N
            /\ r.total_files = N
            /\ r.extracted_files + r.failed_files = N

C7_Witness ==
    /\ Returned /\ xresult[1].success
    /\ \E i \in DOMAIN zip.entries : zip.entries[i].isdir
    /\ xresult[1].extracted_files > 0
    /\ xresult[1].failed_files > 0
    /\ Len(xresult[1].files) = 2

\* the members that were written to the scratch directory
ExtractedPaths(files) == {i \in DOMAIN files : files[i].extracted_path # None}

C8_DistinctPaths ==
    \A i, j \in ExtractedPaths(scratch.files) :
        i # j => scratch.files[i].extracted_path # scratch.files[j].extracted_path

\* the step that extracts entry xi, when the entry is copied
C8_StepRenames ==
    (xpc = "loop" /\ xi' = xi + 1 /\ ~zip.entries[xi].isdir /\ zip.entries[xi].outcome = "ok") =>
        LET n0 == Basename(zip.entries[xi].name)
            m == scratch'.files[Len(scratch'.files)]
            p == m.extracted_path[1]
        IN  /\ Len(scratch'.files) = Len(scratch.files) + 1
            /\ m.filename = p
            /\ p \notin scratch.dir
            /\ p.dir = <<>>
            /\ n0 \notin scratch.dir => p = n0
            /\ n0 \in scratch.dir =>
                  \E k \in 1..(Cardinality(scratch.dir) + 1) :
                      /\ p = WithCounter(n0, k)
                      /\ \A j \in 1..(k - 1) : WithCounter(n0, j) \in scratch.dir

C8_Scenario ==
    LET a == [name |-> MkName(<<>>, "a", <<>>, "pdf"), isdir |-> FALSE, outcome |-> "ok"]
        b == [name |-> MkName(<<>>, "b", <<>>, "txt"), isdir |-> FALSE, outcome |-> "ok"]
    IN  (Returned /\ zip.openable /\ zip.entries = <<a, a, b>>) =>
            /\ Len(xresult[1].files) = 3
            /\ xresult[1].files[1].filename = MkName(<<>>, "a", <<>>, "pdf")
            /\ xresult[1].files[2].filename = MkName(<<>>, "a", <<1>>, "pdf")
            /\ xresult[1].files[3].filename = MkName(<<>>, "b", <<>>, "txt")

\* C8: within one extraction the extracted paths are pairwise distinct; an
\* entry whose base name is free keeps it, and a colliding entry gets "_k"
\* before the extension for the smallest k >= 1 whose name is free in the
\* scratch directory (a.pdf, a.pdf, b.txt gives a.pdf, a_1.pdf, b.txt).
C8_CollisionSuffix ==
    /\ [](C8_DistinctPaths /\ C8_Scenario)
    /\ [][C8_StepRenames]_vars

\* three entries with one base name, the third renamed a second time
C8_Witness ==
    /\ Returned /\ xresult[1].success
    /\ Len(xresult[1].files) = 3
    /\ \A i \in 1..3 : xresult[1].files[i].extracted_path # None
    /\ xresult[1].files[1].filename = MkName(<<>>, "a", <<>>, "pdf")
    /\ xresult[1].files[2].filename = MkName(<<>>, "a", <<1>>, "pdf")
    /\ xresult[1].files[3].filename = MkName(<<>>, "a", <<2>>, "pdf")

\* C9: an entry that cannot be extracted fails only that entry: its member
\* has error set and no extracted path, every other entry is extracted,
\* extracted_files counts exactly the entries that were extracted, and
\* extract() still returns success, even if every entry fails.
C9_FailedEntryIsolated ==
    (Returned /\ zip.openable) =>
        LET r == xresult[1]
            es == NonDirEntries
            Copied(e) == e.outcome = "ok"
            NotCopied(e) == e.outcome # "ok"
        IN  /\ r.success
            /\ Len(r.files) = Len(es)
            /\ \A i \in DOMAIN es :
                  IF es[i].outcome = "ok"
                    THEN r.files[i].extracted_path # None /\ r.files[i].error = None
                    ELSE r.files[i].extracted_path = None /\ r.files[i].error # None
            /\ r.extracted_files = CountSeq(es, Copied)
            /\ r.failed_files = CountSeq(es, NotCopied)

\* os.path.join(temp_dir, p) names a file whose directory is temp_dir: p has
\* no directory component and is neither "." nor ".."
DirectChild(p) == p.dir = <<>> /\ ~IsDirRef(p)

\* C11: whatever the entry names ("../" components, nested directories, an
\* absolute path, a base name ".."), every file created by the extraction,
\* and every member's extracted path, is a direct child of the working
\* directory.
C11_NoEscape ==
    /\ \A p \in scratch.dir : DirectChild(p)
    /\ \A i \in DOMAIN scratch.files :
          scratch.files[i].extracted_path # None =>
              /\ DirectChild(scratch.files[i].extracted_path[1])
              /\ scratch.files[i].extracted_path[1] \in scratch.dir

\* "../../evil.pdf" and "a/.." have both been extracted
C11_Witness ==
    /\ Returned /\ xresult[1].success
    /\ Len(xresult[1].files) = 2
    /\ \E i, j \in 1..2 :
          /\ zip.entries[i].name.dir = <<"..", "..">>
          /\ xresult[1].files[i].extracted_path = Some(MkName(<<>>, "evil", <<>>, "pdf"))
          /\ zip.entries[j].name.base = ".."
          /\ xresult[1].files[j].extracted_path = Some(MkName(<<>>, "..", <<1>>, ""))

FormatTags ==
    {"pdf", "word", "excel", "ppt", "image", "audio", "video",
     "html", "csv", "json", "xml", "unknown"}

\* C12: the format tag of every member is one of the closed set of tags, it
\* is the same for two members with the same extension, and a member whose
\* extension is not convertible (b.txt) is tagged unknown.
C12_ClosedTagSet ==
    \A i, j \in DOMAIN scratch.files :
        /\ scratch.files[i].format \in FormatTags
        /\ scratch.files[i].filename.ext = "txt" => scratch.files[i].format = "unknown"
        /\ scratch.files[i].filename.ext = scratch.files[j].filename.ext =>
               scratch.files[i].format = scratch.files[j].format

\* the formats of SUPPORTED_FORMATS that have a converter
ConvertibleFormats == SUPPORTED_FORMATS \ {"zip", "rar"}

\* C29: a member whose extension SUPPORTED_FORMATS lists under a
\* convertible format is given that format as its tag when it is extracted,
\* so that the batch worker does not reject it as an unsupported format.
C29_TagsAgreeWithTable ==
    \A i \in DOMAIN scratch.files :
        scratch.files[i].extracted_path # None =>
            \A fmt \in ConvertibleFormats :
                scratch.files[i].filename.ext \in SupportedExtensions(fmt) =>
                    /\ scratch.files[i].format = fmt
                    /\ scratch.files[i].format \in SUPPORTED_FORMATS

\* ------------------------------------------------------------------------
\* Properties of the batch pipeline
\* ------------------------------------------------------------------------

Sum(p) == p.completed + p.failed + p.processing

C2_ReadsAreSnapshots ==
    [][response' # response => \A w \in ConvertReqs : wpc[w] # "dec"]_vars

Edges ==
    { <<"uploaded", "extracting">>, <<"extracting", "extracted">>,
      <<"extracting", "extract_failed">>, <<"extracted", "converting">>,
      <<"converting", "completed">>, <<"converting", "conversion_failed">> }

\* C3: a batch's status changes only along the edges of the lifecycle
\* uploaded -> extracting -> extracted | extract_failed,
\* extracted -> converting -> completed | conversion_failed.
C3_StatusEdges ==
    [][\A b \in BatchIds :
         (Known(b) /\ batch_conversion_status'[b].status # Batch(b).status) =>
             <<Batch(b).status, batch_conversion_status'[b].status>> \in Edges]_vars

\* C4: every batch whose conversion is triggered eventually reaches status
\* completed.
C4_EventuallyCompleted ==
    \A b \in BatchIds :
        (Known(b) /\ Batch(b).status = "converting")
            ~> (Known(b) /\ Batch(b).status = "completed")

\* C5: an exception raised while one selected entry is handled never leaves
\* the loop and never ends the batch in conversion_failed; the member it was
\* raised for is marked failed and counted in failed, processing is then
\* decremented and the worker goes on to the next entry.
C5_MemberFailureIsolated ==
    /\ [](\A w \in ConvertReqs : wpc[w] # "raised")
    /\ [](\A b \in BatchIds : Known(b) => Batch(b).status # "conversion_failed")
    /\ [][\A w \in ConvertReqs, b \in BatchIds :
            /\ (wpc[w] = "convert" /\ wpc'[w] # "convert"
                  /\ convert_file_content(Batch(b).files[wg[w][1].idx].format, AllRaise).kind = "raise"
                  /\ batch_conversion_status'[b].files[wg[w][1].idx].conversion_status # "completed") =>
                    /\ wpc'[w] = "dec"
                    /\ batch_conversion_status'[b].files[wg[w][1].idx].conversion_status = "failed"
                    /\ batch_conversion_status'[b].files[wg[w][1].idx].conversion_error # None
                    /\ batch_conversion_status'[b].conversion_progress[1].failed = Progress(b).failed + 1
            /\ (wpc[w] = "dec" /\ wpc'[w] # "dec") =>
                    /\ batch_conversion_status'[b].conversion_progress[1].processing
                          = Progress(b).processing - 1
                    /\ wpc'[w] = "loop"
                    /\ wi'[w] = wi[w] + 1
       ]_vars

\* the member of the batch that an entry of the selected list stands for
Matches(m, e) ==
    m.filename = e.filename /\ m.extracted_path = e.extracted_path /\ m.error = e.error

\* C6: when a batch is completed, every member that was selected for
\* conversion has conversion_status completed or failed.
C6_SelectedAreTerminal ==
    \A b \in BatchIds, w \in ConvertReqs :
        (Known(b) /\ Batch(b).status = "completed" /\ wpc[w] = "done") =>
            \A i \in DOMAIN wfiles[w], j \in DOMAIN Batch(b).files :
                Matches(Batch(b).files[j], wfiles[w][i]) =>
                    Batch(b).files[j].conversion_status \in {"completed", "failed"}

Unopenable(b) == Known(b) /\ ~Batch(b).archive.openable

\* C10: for an archive that cannot be opened, every run of the extraction
\* ends with the batch in extract_failed with an error message attached
\* (the status being changed only from extracting), the request answered
\* with an error, and the member list and the file counts still empty/zero.
C10_WholesaleFailure ==
    /\ [](\A b \in BatchIds : Unopenable(b) =>
            /\ Batch(b).status \in {"uploaded", "extracting", "extract_failed"}
            /\ Batch(b).files = <<>>
            /\ Batch(b).total_files = 0
            /\ Batch(b).extracted_files = 0
            /\ Batch(b).failed_files = 0
            /\ Batch(b).status = "extract_failed" => Batch(b).error # None)
    /\ [][\A b \in BatchIds, r \in ExtractReqs :
            (Unopenable(b) /\ epc[r] = "marked" /\ epc'[r] # "marked") =>
                /\ epc'[r] = "500"
                /\ batch_conversion_status'[b].status = "extract_failed"
                /\ batch_conversion_status'[b].error # None
                /\ Batch(b).status \in {"extracting", "extract_failed"}
       ]_vars

\* both racing extract requests have run on an archive that cannot be opened
C10_Witness ==
    \E b \in BatchIds :
        /\ Unopenable(b)
        /\ Batch(b).status = "extract_failed"
        /\ Batch(b).error # None
        /\ \A r \in ExtractReqs : epc[r] = "500"

\* C13: a member is marked failed by the worker only when an exception
\* escapes the dispatch call; a member whose converter fails inside
\* dispatch, and a member whose tag has no converter (unknown), reaches
\* completed.
C13_FailedOnlyOnEscape ==
    [][\A w \in ConvertReqs, b \in BatchIds :
         (wpc[w] = "convert" /\ wpc'[w] # "convert" /\ wg'[w] # None) =>
             LET m == batch_conversion_status'[b].files[wg'[w][1].idx]
             IN  /\ m.conversion_status \in {"completed", "failed"}
                 /\ m.conversion_status = "failed" =>
                       convert_file_content(m.format, AllRaise).kind = "raise"
      ]_vars

NeverRaisingTags == {"ppt", "audio", "video", "unknown"}

\* C14: for the tags ppt, audio, video and unknown no exception leaves
\* convert_file_content: if the converter returns, the result is its
\* markdown; if it raises, the result is an error report that embeds the
\* exception's message; for unknown the result is the placeholder document.
C14_DispatchNeverRaises ==
    (dresult # None /\ dfmt \in NeverRaisingTags) =>
        LET r == dresult[1]
        IN  /\ r.kind # "raise"
            /\ dfmt = "unknown" => r.kind = "placeholder"
            /\ (dfmt # "unknown" /\ ~dconv.primary.raises) => r.kind = "markdown"
            /\ (dfmt # "unknown" /\ dconv.primary.raises) =>
                  /\ r.kind = "error_report"
                  /\ \E i \in DOMAIN r.detail : r.detail[i] = dconv.primary.msg

\* the audio converter has raised and dispatch has returned an error report
C14_Witness ==
    /\ dresult # None
    /\ dfmt = "audio"
    /\ dconv.primary = Raises("timeout")
    /\ dresult[1] = Result("error_report", <<"timeout">>)

\* C21: for the tag pdf, convert_file_content calls the primary converter
\* first and the native one only if the primary raised; it returns the
\* markdown of the converter that returned, or, when both raised, an error
\* document that embeds both messages; no exception leaves it.
C21_PdfTwoTier ==
    (dresult # None /\ dfmt = "pdf") =>
        LET r == dresult[1]
        IN  /\ r.kind # "raise"
            /\ dcalls # <<>> /\ dcalls[1] = "primary"
            /\ (\E i \in DOMAIN dcalls : dcalls[i] = "fallback") <=> dconv.primary.raises
            /\ Len(dcalls) <= 2
            /\ ~dconv.primary.raises => r = Result("markdown", <<>>)
            /\ (dconv.primary.raises /\ ~dconv.fallback.raises) => r = Result("markdown", <<>>)
            /\ (dconv.primary.raises /\ dconv.fallback.raises) =>
                  r = Result("error_report", <<dconv.primary.msg, dconv.fallback.msg>>)

\* both pdf converters have raised, with different messages
C21_Witness ==
    /\ dresult # None
    /\ dfmt = "pdf"
    /\ dconv = [primary |-> Raises("boom"), fallback |-> Raises("timeout")]
    /\ dcalls = <<"primary", "fallback">>
    /\ dresult[1] = Result("error_report", <<"boom", "timeout">>)

\* ------------------------------------------------------------------------
\* Properties of the history log
\* ------------------------------------------------------------------------

\* C15: the history log never holds more than 100 records; add_to_history
\* puts the new record first, keeps the records that were there in their
\* order behind it, and on overflow drops the record at the tail only.
C15_HistoryCap ==
    /\ [](Len(history) <= 100)
    /\ [][nextid' = nextid + 1 =>
             /\ history' # <<>>
             /\ history'[1].id = nextid
             /\ Len(history') = (IF Len(history) < 100 THEN Len(history) + 1 ELSE 100)
             /\ \A i \in 2..Len(history') : history'[i] = history[i - 1]
       ]_vars

\* the log has overflowed twice: records 1 and 2 are gone
C15_Witness ==
    /\ Len(history) = 100
    /\ history[1].id = 102
    /\ history[100].id = 3

IsCompleted(f) == f.conversion_status = "completed"

\* C16: one history record is written per completed conversion: the record
\* of a member is appended after the member is marked completed and before
\* completed is incremented for it, nothing else appends to the log (no
\* record for a member that fails or is skipped), and when the worker is
\* done the log holds exactly one record for each completed member.
C16_RecordPerCompleted ==
    /\ [](\A b \in BatchIds, w \in ConvertReqs :
            /\ (~Known(b) \/ Batch(b).conversion_progress = None) => history = <<>>
            /\ (Known(b) /\ Batch(b).conversion_progress # None) =>
                  /\ Len(history) =
                        Progress(b).completed + (IF wpc[w] = "count" THEN 1 ELSE 0)
                  /\ \A i, j \in DOMAIN history :
                        i # j => history[i].original_name # history[j].original_name
                  /\ \A i \in DOMAIN history : \E k \in DOMAIN Batch(b).files :
                        /\ Batch(b).files[k].filename = history[i].original_name
                        /\ IsCompleted(Batch(b).files[k])
                  /\ wpc[w] = "done" =>
                        Len(history) = CountSeq(Batch(b).files, IsCompleted))
    /\ [][\A b \in BatchIds :
            /\ history' # history =>
                  \E w \in ConvertReqs :
                      /\ wpc[w] = "history" /\ wpc'[w] = "count"
                      /\ Len(history') = Len(history) + 1
                      /\ history'[1].original_name = Batch(b).files[wg[w][1].idx].filename
                      /\ IsCompleted(Batch(b).files[wg[w][1].idx])
                      /\ batch_conversion_status' = batch_conversion_status
            /\ (Known(b) /\ Batch(b).conversion_progress # None
                  /\ batch_conversion_status'[b].conversion_progress # None
                  /\ batch_conversion_status'[b].conversion_progress[1].completed
                        # Progress(b).completed) =>
                  \E w \in ConvertReqs : wpc[w] = "count" /\ history' = history
       ]_vars

\* a batch of two members is done: one completed and recorded, one failed
C16_Witness ==
    \E b \in BatchIds :
        /\ Known(b) /\ Batch(b).status = "completed"
        /\ Len(Batch(b).files) = 2
        /\ Batch(b).files[1].conversion_status = "failed"
        /\ Batch(b).files[2].conversion_status = "completed"
        /\ Len(history) = 1
        /\ history[1].original_name = Batch(b).files[2].filename

\* C17: the load-modify-save of a history operation is not interleaved
\* with another one: when an operation saves, the log still holds what the
\* operation loaded.
C17_HistoryOpsAtomic ==
    [][\A t \in HistoryReqs :
         (hpc[t] = "loaded" /\ hpc'[t] = "idle") => hlocal[t] = history]_vars

\* position of the record with this id in the log, 0 if there is none
IndexOfId(h, id) ==
    IF \E i \in DOMAIN h : h[i].id = id
      THEN CHOOSE i \in DOMAIN h : h[i].id = id
      ELSE 0

\* C18: a delete request for an id of the log removes that record and
\* leaves the other records and their order unchanged; for an id that is
\* not in the log it answers 404 and leaves the log unchanged; a clear
\* request leaves the log empty.
C18_DeleteAndClear ==
    [][\A t \in HistoryReqs :
         /\ (hpc[t] = "loaded" /\ hop[t].op = "delete" /\ hpc'[t] = "idle") =>
               LET k == IndexOfId(history, hop[t].id)
               IN  /\ k > 0
                   /\ hresp'[t] = 200
                   /\ Len(history') = Len(history) - 1
                   /\ \A i \in 1..(k - 1) : history'[i] = history[i]
                   /\ \A i \in k..Len(history') : history'[i] = history[i + 1]
         /\ (hpc[t] = "idle" /\ hresp[t] # 404 /\ hresp'[t] = 404) =>
               /\ history' = history
               /\ hpc'[t] = "idle"
         /\ (hpc[t] = "idle" /\ hpc'[t] = "loaded" /\ hop'[t].op = "delete") =>
               IndexOfId(history, hop'[t].id) > 0
         /\ (hpc[t] = "idle" /\ hpc'[t] = "idle" /\ history' # history) =>
               history' = <<>>
      ]_vars

\* the middle one of three records has been deleted
C18_Witness ==
    /\ Len(history) = 2
    /\ history[1].id = 3
    /\ history[2].id = 1
    /\ \A t \in HistoryReqs : hpc[t] = "idle" /\ hresp[t] = 200

\* ------------------------------------------------------------------------
\* Properties of the conversion trigger
\* ------------------------------------------------------------------------

\* a member that was extracted without error
ExtractedCleanly(f) == f.extracted_path # None /\ f.error = None

\* C19: a trigger without a caller-supplied list selects exactly the
\* members that were extracted without error, in their order, and sets
\* conversion_progress to {total: extracted_files, completed: 0, failed: 0,
\* processing: 0}; a trigger with a supplied list sets total to the length of
\* that list.
C19_DefaultSelection ==
    [][\A b \in BatchIds, r \in ConvertReqs :
         (cpc[r] = "checked" /\ cpc'[r] = "200") =>
             LET files == Batch(b).files
                 clean == SelectSeq(files, ExtractedCleanly)
                 progress == batch_conversion_status'[b].conversion_progress[1]
             IN  IF cbody'[r] = "none"
                   THEN /\ Len(wfiles'[r]) = Len(clean)
                        /\ \A i \in DOMAIN clean :
                              /\ wfiles'[r][i].filename = clean[i].filename
                              /\ wfiles'[r][i].extracted_path = clean[i].extracted_path
                        /\ progress = [total |-> Batch(b).extracted_files, completed |-> 0,
                                       failed |-> 0, processing |-> 0]
                   ELSE progress = [total |-> Len(files), completed |-> 0,
                                    failed |-> 0, processing |-> 0]
      ]_vars

\* ------------------------------------------------------------------------
\* Properties of the storage migration
\* ------------------------------------------------------------------------

\* C20: whenever migrate_storage_directories returns success = false, the
\* files are where they were before the call.
C20_MigrationAtomic ==
    (mresult # None /\ ~mresult[1]) => mfs = mreq.before

\* ------------------------------------------------------------------------
\* Properties of the worker under concurrent requests
\* ------------------------------------------------------------------------

IsProcessing(f) == f.conversion_status = "processing"

\* C22: in every reachable state, whatever the interleaving of requests, at
\* most one member of a batch has conversion_status processing and
\* conversion_progress.processing is 0 or 1.
C22_SequentialConversion ==
    \A b \in BatchIds :
        (Known(b) /\ Batch(b).conversion_progress # None) =>
            /\ Progress(b).processing \in {0, 1}
            /\ CountSeq(Batch(b).files, IsProcessing) <= 1

\* the message async_convert records stays in the batch dict: a batch that
\* carries it has been in conversion_failed
WasConversionFailed(b) == Batch(b).error = Some("exception")

\* C23: an exception that leaves the loop of convert_batch_files is caught
\* by async_convert: the worker thread ends, the batch's status becomes
\* conversion_failed with the message recorded, and the batch never becomes
\* completed afterwards.
C23_CaughtAtWorkerBoundary ==
    /\ [][\A w \in ConvertReqs, b \in BatchIds :
            (wpc[w] = "raised" /\ wpc'[w] # "raised") =>
                /\ wpc'[w] = "done"
                /\ batch_conversion_status'[b].status = "conversion_failed"
                /\ Truthy(batch_conversion_status'[b].error)
       ]_vars
    /\ [](\A b \in BatchIds :
            (Known(b) /\ WasConversionFailed(b)) => Batch(b).status # "completed")

\* C24: once a batch is completed, processing is 0 and completed + failed
\* equals total, whatever members were selected (the default selection, or a
\* list supplied by the caller that holds members that failed extraction).
C24_CountersAtCompletion ==
    \A b \in BatchIds :
        (Known(b) /\ Batch(b).status = "completed") =>
            /\ Progress(b).processing = 0
            /\ Progress(b).completed + Progress(b).failed = Progress(b).total

\* the requests that have passed the status check of their handler
PassedExtractCheck == {r \in ExtractReqs : epc[r] \in {"checked", "marked", "200", "500"}}

PassedConvertCheck == {r \in ConvertReqs : cpc[r] \in {"checked", "200"}}

\* C25: of the concurrent extract requests for one batch at most one passes
\* the check status == uploaded and runs the extraction, and of the
\* concurrent convert requests at most one passes the check
\* status == extracted and starts a worker.
C25_GuardsRaceFree ==
    /\ Cardinality(PassedExtractCheck) <= 1
    /\ Cardinality(PassedConvertCheck) <= 1
    /\ Cardinality({w \in ConvertReqs : wpc[w] # "off"}) <= 1

\* C26: no two members of a batch share a filename, and the member the
\* worker looks up, converts and marks for a selected entry is the member
\* that entry stands for: it has the entry's extracted path.
C26_OwnMemberUpdated ==
    /\ [](\A b \in BatchIds : Known(b) =>
            \A i, j \in DOMAIN Batch(b).files :
                i # j => Batch(b).files[i].filename # Batch(b).files[j].filename)
    /\ [][\A w \in ConvertReqs, b \in BatchIds :
            (wpc[w] = "loop" /\ wpc'[w] = "convert") =>
                /\ Matches(Batch(b).files[wg'[w][1].idx], wfiles[w][wi[w]])
                /\ batch_conversion_status'[b].files[wg'[w][1].idx].conversion_status = "processing"
       ]_vars

\* the conversion_status of every member, in the order of the member list
MemberStatuses(job) == [i \in DOMAIN job.files |-> job.files[i].conversion_status]

\* C27: completed is absorbing: once a batch's status is completed, no step
\* of a request or of a worker changes its status, its conversion_progress
\* counters or the conversion_status of a member.
C27_CompletedIsAbsorbing ==
    [][\A b \in BatchIds :
         (Known(b) /\ Batch(b).status = "completed") =>
             /\ batch_conversion_status'[b].status = "completed"
             /\ batch_conversion_status'[b].conversion_progress = Batch(b).conversion_progress
             /\ MemberStatuses(batch_conversion_status'[b]) = MemberStatuses(Batch(b))
      ]_vars

\* ------------------------------------------------------------------------
\* Properties of rejected requests
\* ------------------------------------------------------------------------

Rejected == {"404", "400"}

\* C28: a request whose precondition fails is answered with an error and
\* changes nothing: an extract request passes its check only for a known
\* batch whose status is uploaded, a convert request only for a known batch
\* whose status is extracted; a request that is rejected (400 for the wrong
\* status, 404 for an unknown id), and every status read, leaves the
\* registry as it is, creates no batch, starts no worker and does nothing
\* afterwards.
C28_RejectedChangesNothing ==
    [][/\ \A r \in ExtractReqs :
            /\ (epc[r] = "idle" /\ epc'[r] = "checked") =>
                  \E b \in BatchIds : Known(b) /\ Batch(b).status = "uploaded"
            /\ (epc[r] = "idle" /\ epc'[r] \in Rejected) =>
                  /\ batch_conversion_status' = batch_conversion_status
                  /\ wpc' = wpc
            /\ (epc[r] = "idle" /\ epc'[r] = "400") =>
                  \E b \in BatchIds : Known(b) /\ Batch(b).status # "uploaded"
            /\ epc[r] \in Rejected => epc'[r] = epc[r]
       /\ \A r \in ConvertReqs :
            /\ (cpc[r] = "idle" /\ cpc'[r] = "checked") =>
                  \E b \in BatchIds : Known(b) /\ Batch(b).status = "extracted"
            /\ (cpc[r] = "idle" /\ cpc'[r] \in Rejected) =>
                  /\ batch_conversion_status' = batch_conversion_status
                  /\ wpc' = wpc
            /\ (cpc[r] = "idle" /\ cpc'[r] = "400") =>
                  \E b \in BatchIds : Known(b) /\ Batch(b).status # "extracted"
            /\ cpc[r] \in Rejected => (cpc'[r] = cpc[r] /\ wpc'[r] = "off")
       /\ response' # response =>
            /\ batch_conversion_status' = batch_conversion_status
            /\ wpc' = wpc
       /\ UnknownId \notin DOMAIN batch_conversion_status'
      ]_vars

\* with the batch registered: an extract request and a convert request were
\* rejected for its status, a convert request and a status read for the
\* unknown id were answered 404
C28_Witness ==
    /\ Known("b1")
    /\ epc["e2"] = "400"
    /\ cpc["c1"] = "400"
    /\ cpc["c2"] = "404"
    /\ response # None /\ response[1].code = 404

\* ------------------------------------------------------------------------
\* Properties of the ArchiveExtractor instance
\* ------------------------------------------------------------------------

\* C30: the dict returned by extract_archive depends on the archive only:
\* every call on the shared instance starts with a working directory that
\* holds no file of an earlier call, and returns the members that a call on
\* a new instance returns for the same archive.
C30_ResultDependsOnArchiveOnly ==
    /\ [](alast # None =>
            alast[1].result = extract_archive(None, alast[1].archive).result)
    /\ [][acount' = acount + 1 => create_temp_directory(atemp) = {}]_vars

====
